---- MODULE Spec2Model ----
(***************************************************************************)
(* Model of the dataset-to-model-input pipeline of kithara:                *)
(*   kithara/dataset/text_completion.py  (TextCompletionDataset)           *)
(*   examples/multihost/ray/TPU/full_finetuning_example.py  (launcher)     *)
(*                                                                         *)
(* Python dicts are modelled as sets of <<key, value>> pairs, strings as   *)
(* sequences of symbols, numpy arrays of shape [B, S] as sequences of B    *)
(* rows of length S.                                                       *)
(***************************************************************************)
EXTENDS Integers, Sequences, FiniteSets, TLC

VARIABLES
    global_state,   \* keras global attribute MODEL_IMPLEMENTATION (None when unset)
    ds,             \* the TextCompletionDataset object bound by the caller
    ctor,           \* outcome of the most recent TextCompletionDataset(...) call
    out,            \* outcome of the most recent process_sample call on ds
    launcher,       \* state of the multihost launcher script
    source,         \* the records of the source the dataset wraps
    packer,         \* the PackedDataset made by ds.to_packed_dataset()
    iteration       \* two passes of the dataset over its source

vars == <<global_state, ds, ctor, out, launcher, source, packer, iteration>>

-----------------------------------------------------------------------------
(* Bounds *)

MaxTextLen == 1     \* longest text, in symbols
MaxSeqLen == 3      \* largest max_seq_len a dataset is constructed with

-----------------------------------------------------------------------------
(* Python values *)

None == "None"

\* Python truthiness of a string-or-None value (`not model_type`, line 123).
Falsy(v) == v \in {None, ""}

\* dict helpers
Keys(d) == {p[1] : p \in d}
Get(d, k) == (CHOOSE p \in d : p[1] = k)[2]
\* {**a, **b}
DictMerge(a, b) == {p \in a : p[1] \notin Keys(b)} \cup b

Words == {"a"}
Texts == UNION {[1..n -> Words] : n \in 0..MaxTextLen}

-----------------------------------------------------------------------------
(* Tokenizer collaborator *)

\* Vocabulary of the tokenizer: the id of each symbol.
TokenId(sym) ==
    CASE sym = "<pad>" -> 0
      [] sym = "<eos>" -> 1
      [] sym = "<bos>" -> 2
      [] sym = "a" -> 5

\* tokenizer.pad_token_id: the id of whatever pad_token currently is.
pad_token_id(tokenizer) == TokenId(tokenizer.pad_token)

\* Tokenizer instances a caller may hand to the constructor, by name, with
\* the pad token each was created with.
TokenizerInstances == {"tok"}
InitialPadToken(name) == "<eos>"

TokenizerHandles == {"hf://google/gemma-2-2b"}

\* initialize_tokenizer(tokenizer_handle): loads the tokenizer of that handle.
initialize_tokenizer(tokenizer_handle) ==
    [name |-> tokenizer_handle, pad_token |-> "<eos>"]

\* HFtokenize(text, tokenizer, seq_len): encode, truncate to seq_len, right-pad
\* with the pad token id; shape [1, seq_len] for one string.
HFtokenize(text, tokenizer, seq_len) ==
    LET n == IF Len(text) < seq_len THEN Len(text) ELSE seq_len
        ids == [i \in 1..seq_len |->
                  IF i <= n THEN TokenId(text[i]) ELSE pad_token_id(tokenizer)]
        mask == [i \in 1..seq_len |-> IF i <= n THEN 1 ELSE 0]
    IN [input_ids |-> <<ids>>, attention_mask |-> <<mask>>]

-----------------------------------------------------------------------------
(* numpy *)

RECURSIVE Flatten(_)
Flatten(a) == IF a = <<>> THEN <<>> ELSE Head(a) \o Flatten(Tail(a))

Reshape(s, B, S) == [b \in 1..B |-> [j \in 1..S |-> s[(b - 1) * S + j]]]

\* np.roll(a, shift) with no axis: the array is flattened, rolled, and
\* restored to its shape.
np_roll(a, shift) ==
    LET flat == Flatten(a)
        n == Len(flat)
        rolled == [i \in 1..n |-> flat[((i - 1 - shift) % n) + 1]]
    IN Reshape(rolled, Len(a), Len(a[1]))

\* np.arange(n)[None, :]
np_arange(n) == << [i \in 1..n |-> i - 1] >>

-----------------------------------------------------------------------------
(* kithara.model *)

\* ModelImplementationType
MAXTEXT == "MaxText"
KERASHUB == "KerasHub"

\* Arguments a caller may pass as model_type; Omitted stands for leaving the
\* keyword argument out.
Omitted == "Omitted"
ModelTypeArgs == {Omitted, None, MAXTEXT, KERASHUB, "Bogus"}

\* global_state.get_global_attribute("MODEL_IMPLEMENTATION", default), given
\* the current value attr of the attribute.
get_global_attribute(attr, default) ==
    IF attr = None /\ default # None THEN default ELSE attr

-----------------------------------------------------------------------------
(* TextCompletionDataset *)

\* custom_formatting_fn values a caller may pass (None: no function).
\*   rename_text_to_prompt  moves the "text" column to "prompt"
\*   fill_text              sets the "text" column to the text "a"
CustomFormattingFns == {None, "rename_text_to_prompt", "fill_text"}

ApplyFormatting(fn, sample) ==
    CASE fn = "rename_text_to_prompt" ->
            IF "text" \in Keys(sample)
            THEN {p \in sample : p[1] \notin {"text", "prompt"}}
                     \cup {<<"prompt", Get(sample, "text")>>}
            ELSE sample
      [] fn = "fill_text" ->
            {p \in sample : p[1] # "text"} \cup {<<"text", <<"a">>>>}

\* column_mapping arguments ({} stands for None and for the empty dict, both falsy).
ColumnMappingArgs == { {}, {<<"text", "prompt">>} }

Columns == {"text", "prompt"}
\* RawSamples: every mapping of a subset of Columns to texts.
RawSamples ==
    {s \in SUBSET (Columns \X Texts) : \A p, q \in s : p[1] = q[1] => p = q}

\* Attributes Dataset.__init__(source) sets on the object.
DatasetBaseAttrs == {"source"}

\* The object before any attribute is assigned.
NoDataset ==
    [attrs |-> {},
     max_seq_len |-> 0,
     tokenizer |-> [name |-> None, pad_token |-> None],
     column_mapping |-> {},
     model_type |-> None,
     custom_formatting_fn |-> None,
     model_type_given |-> FALSE]

\* TextCompletionDataset.__init__ called with the arguments a: the raised
\* exception ("" when none) and the object as the constructor left it.
\* Faulty variant: the assertion placed after self.max_seq_len is assigned.
DatasetInitAssertLate(a) ==
    LET tokenizer == a.tokenizer
        tokenizer_handle == a.tokenizer_handle
        column_mapping == a.column_mapping
        model_type == a.model_type
        max_seq_len == a.max_seq_len
        custom_formatting_fn == a.custom_formatting_fn
        base == [NoDataset EXCEPT !.attrs = DatasetBaseAttrs \cup {"source", "max_seq_len"},
                                  !.max_seq_len = max_seq_len]
    IN IF ~((tokenizer # None) \/ (tokenizer_handle # None))
       THEN [raised |-> "AssertionError", self |-> base]
       ELSE [raised |-> "",
             self |->
               [attrs |-> DatasetBaseAttrs \cup
                    {"source", "max_seq_len", "tokenizer", "column_mapping",
                     "model_type", "custom_formatting_fn", "packing"},
                max_seq_len |-> max_seq_len,
                tokenizer |->
                    [(IF tokenizer = None
                      THEN initialize_tokenizer(tokenizer_handle)
                      ELSE [name |-> tokenizer, pad_token |-> InitialPadToken(tokenizer)])
                     EXCEPT !.pad_token = "<pad>"],
                column_mapping |-> DictMerge({<<"text", "text">>}, column_mapping),
                model_type |-> IF model_type = Omitted THEN KERASHUB ELSE model_type,
                custom_formatting_fn |-> custom_formatting_fn,
                model_type_given |-> model_type # Omitted]]

\* Faulty variant: the assertion demanding exactly one of the two arguments.
DatasetInitRequireOne(a) ==
    LET tokenizer == a.tokenizer
        tokenizer_handle == a.tokenizer_handle
        column_mapping == a.column_mapping
        model_type == a.model_type
        max_seq_len == a.max_seq_len
        custom_formatting_fn == a.custom_formatting_fn
        base == [NoDataset EXCEPT !.attrs = DatasetBaseAttrs]
    IN IF ~((tokenizer # None) # (tokenizer_handle # None))
       THEN [raised |-> "AssertionError", self |-> base]
       ELSE [raised |-> "",
             self |->
               [attrs |-> DatasetBaseAttrs \cup
                    {"source", "max_seq_len", "tokenizer", "column_mapping",
                     "model_type", "custom_formatting_fn", "packing"},
                max_seq_len |-> max_seq_len,
                tokenizer |->
                    [(IF tokenizer = None
                      THEN initialize_tokenizer(tokenizer_handle)
                      ELSE [name |-> tokenizer, pad_token |-> InitialPadToken(tokenizer)])
                     EXCEPT !.pad_token = "<pad>"],
                column_mapping |-> DictMerge({<<"text", "text">>}, column_mapping),
                model_type |-> IF model_type = Omitted THEN KERASHUB ELSE model_type,
                custom_formatting_fn |-> custom_formatting_fn,
                model_type_given |-> model_type # Omitted]]

DatasetInit(a) ==
    LET tokenizer == a.tokenizer
        tokenizer_handle == a.tokenizer_handle
        column_mapping == a.column_mapping
        model_type == a.model_type
        max_seq_len == a.max_seq_len
        custom_formatting_fn == a.custom_formatting_fn
        base == [NoDataset EXCEPT !.attrs = DatasetBaseAttrs]
    IN IF ~((tokenizer # None) \/ (tokenizer_handle # None))
       THEN [raised |-> "AssertionError", self |-> base]
       ELSE [raised |-> "",
             self |->
               [attrs |-> DatasetBaseAttrs \cup
                    {"source", "max_seq_len", "tokenizer", "column_mapping",
                     "model_type", "custom_formatting_fn", "packing"},
                max_seq_len |-> max_seq_len,
                tokenizer |->
                    [(IF tokenizer = None
                      THEN initialize_tokenizer(tokenizer_handle)
                      ELSE [name |-> tokenizer, pad_token |-> InitialPadToken(tokenizer)])
                     EXCEPT !.pad_token = "<pad>"],
                column_mapping |-> DictMerge({<<"text", "text">>}, column_mapping),
                model_type |-> IF model_type = Omitted THEN KERASHUB ELSE model_type,
                custom_formatting_fn |-> custom_formatting_fn,
                model_type_given |-> model_type # Omitted]]

\* task_transform(self, sample)
\* Faulty variant: the mapped column read from the record as it came in, the
\* formatting function having no part in the lookup.
TaskTransformLookupFirst(self, sample) ==
    LET s == sample
        col == Get(self.column_mapping, "text")
    IN IF col \in Keys(s)
       THEN [raised |-> "", arg |-> "", value |-> {<<"text", Get(s, col)>>}]
       ELSE [raised |-> "KeyError", arg |-> col, value |-> {}]

\* Faulty variant: sample.get(column, "") in place of the indexing.
TaskTransformEmptyText(self, sample) ==
    LET s == IF self.custom_formatting_fn # None
             THEN ApplyFormatting(self.custom_formatting_fn, sample)
             ELSE sample
        col == Get(self.column_mapping, "text")
    IN IF col \in Keys(s)
       THEN [raised |-> "", arg |-> "", value |-> {<<"text", Get(s, col)>>}]
       ELSE [raised |-> "", arg |-> "", value |-> {<<"text", <<>>>>}]

task_transform(self, sample) ==
    LET s == IF self.custom_formatting_fn # None
             THEN ApplyFormatting(self.custom_formatting_fn, sample)
             ELSE sample
        col == Get(self.column_mapping, "text")
    IN IF col \in Keys(s)
       THEN [raised |-> "", arg |-> "", value |-> {<<"text", Get(s, col)>>}]
       ELSE [raised |-> "KeyError", arg |-> col, value |-> {}]

\* Faulty variant: the roll without the assignment to the last column.
DeriveLabelsNoPad(input_ids, pad) == np_roll(input_ids, -1)

\* label_ids = np.roll(input_ids, -1); label_ids[:, -1] = pad
derive_label_ids(input_ids, pad) ==
    LET rolled == np_roll(input_ids, -1)
    IN [b \in 1..Len(rolled) |->
          [j \in 1..Len(rolled[b]) |->
              IF j = Len(rolled[b]) THEN pad ELSE rolled[b][j]]]

\* Faulty variant: label_ids is input_ids itself, rolled and padded in place.
ModelTransformInPlace(self, sample) ==
    LET text == Get(sample, "text")
        full_seq == HFtokenize(<<"<bos>">> \o text \o <<"<eos>">>,
                               self.tokenizer, self.max_seq_len)
        label_ids == derive_label_ids(full_seq.input_ids,
                                      pad_token_id(self.tokenizer))
    IN [input_ids |-> label_ids,
        attention_mask |-> full_seq.attention_mask,
        label_ids |-> label_ids]

\* model_transform(self, sample)
model_transform(self, sample) ==
    LET text == Get(sample, "text")
        full_seq == HFtokenize(<<"<bos>">> \o text \o <<"<eos>">>,
                               self.tokenizer, self.max_seq_len)
        input_ids == full_seq.input_ids
        attention_mask == full_seq.attention_mask
    IN [input_ids |-> input_ids,
        attention_mask |-> attention_mask,
        label_ids |-> derive_label_ids(input_ids, pad_token_id(self.tokenizer))]

NoResult == [nothing |-> TRUE]

\* Faulty variant: the two entries of the table under each other's tag.
InputFormatsSwapped(self, model_type, input_ids, attention_mask, label_ids) ==
    IF model_type = KERASHUB
    THEN [x |-> [tokens |-> input_ids,
                 segment_ids |-> attention_mask,
                 positions |-> np_arange(self.max_seq_len)],
          y |-> label_ids]
    ELSE [x |-> [token_ids |-> input_ids, padding_mask |-> attention_mask],
          y |-> label_ids]

\* Faulty variant: both entries of the table building the KerasHub shape.
InputFormatsOneShape(self, model_type, input_ids, attention_mask, label_ids) ==
    [x |-> [token_ids |-> input_ids, padding_mask |-> attention_mask],
     y |-> label_ids]

\* The table input_formats: the ModelInput of each supported tag.
input_formats(self, model_type, input_ids, attention_mask, label_ids) ==
    IF model_type = MAXTEXT
    THEN [x |-> [tokens |-> input_ids,
                 segment_ids |-> attention_mask,
                 positions |-> np_arange(self.max_seq_len)],
          y |-> label_ids]
    ELSE [x |-> [token_ids |-> input_ids, padding_mask |-> attention_mask],
          y |-> label_ids]

\* Faulty variant: the dataset's model_type taking precedence.
ResolveDatasetFirst(self, attr) ==
    IF self.model_type # None THEN self.model_type ELSE attr

\* The resolution of the backend tag: the global attribute takes precedence.
resolve_model_type(self, attr) == get_global_attribute(attr, self.model_type)

\* Faulty variant: no check that model_type is in input_formats.
ConvertFallsBack(self, attr, input_ids, attention_mask, label_ids) ==
    LET model_type == resolve_model_type(self, attr)
    IN IF Falsy(model_type)
       THEN [raised |-> "ValueError", arg |-> "model_type not specified",
             model_type |-> model_type, value |-> NoResult]
       ELSE [raised |-> "", arg |-> "", model_type |-> model_type,
             value |-> input_formats(self, model_type, input_ids,
                                     attention_mask, label_ids)]

\* convert_to_model_specific_input(self, input_ids, attention_mask, label_ids),
\* attr being the current value of the global attribute.
convert_to_model_specific_input(self, attr, input_ids, attention_mask, label_ids) ==
    LET model_type == resolve_model_type(self, attr)
    IN IF Falsy(model_type)
       THEN [raised |-> "ValueError", arg |-> "model_type not specified",
             model_type |-> model_type, value |-> NoResult]
       ELSE IF model_type \notin {MAXTEXT, KERASHUB}
       THEN [raised |-> "ValueError", arg |-> model_type,
             model_type |-> model_type, value |-> NoResult]
       ELSE [raised |-> "", arg |-> "", model_type |-> model_type,
             value |-> input_formats(self, model_type, input_ids,
                                     attention_mask, label_ids)]

\* No process_sample call yet.
NoOutcome ==
    [called |-> FALSE, sample |-> {}, attr |-> None, stages |-> <<>>,
     raised |-> "", arg |-> "", returned |-> FALSE,
     task |-> {}, input_ids |-> <<>>, attention_mask |-> <<>>,
     label_ids |-> <<>>, model_type |-> None, result |-> NoResult]

\* process_sample(self, sample), attr being the current value of the global
\* attribute: the outcome of the call, with what each stage produced.
process_sample(self, attr, sample) ==
    LET t == task_transform(self, sample)
        m == model_transform(self, t.value)
        c == convert_to_model_specific_input(self, attr, m.input_ids,
                                             m.attention_mask, m.label_ids)
        start == [NoOutcome EXCEPT !.called = TRUE, !.sample = sample, !.attr = attr]
    IN IF t.raised # ""
       THEN [start EXCEPT !.stages = <<"task_transform">>,
                          !.raised = t.raised, !.arg = t.arg]
       ELSE IF c.raised # ""
       THEN [start EXCEPT !.stages = <<"task_transform", "model_transform",
                                       "convert_to_model_specific_input">>,
                          !.task = t.value,
                          !.input_ids = m.input_ids,
                          !.attention_mask = m.attention_mask,
                          !.label_ids = m.label_ids,
                          !.model_type = c.model_type,
                          !.raised = c.raised, !.arg = c.arg]
       ELSE [start EXCEPT !.stages = <<"task_transform", "model_transform",
                                       "convert_to_model_specific_input">>,
                          !.task = t.value,
                          !.input_ids = m.input_ids,
                          !.attention_mask = m.attention_mask,
                          !.label_ids = m.label_ids,
                          !.model_type = c.model_type,
                          !.returned = TRUE,
                          !.result = c.value]

\* Faulty variant: the formatting function dropped once it has been applied.
SelfAfterFormattingOnce(self, sample) ==
    [self EXCEPT !.custom_formatting_fn = None]

\* The dataset object after process_sample(self, sample): no stage assigns an
\* attribute of self or of its tokenizer.
self_after_process_sample(self, sample) == self

\* The TokenizedSample of a record: task_transform, then model_transform.
tokenize_sample(self, sample) ==
    LET t == task_transform(self, sample)
    IN IF t.raised # ""
       THEN [raised |-> t.raised, input_ids |-> <<>>,
             attention_mask |-> <<>>, label_ids |-> <<>>]
       ELSE [raised |-> ""] @@ model_transform(self, t.value)

\* No PackedDataset made yet.
NoPacker ==
    [created |-> FALSE, pad_value |-> 0, idx |-> 0, buffer |-> <<>>,
     segment_ids |-> <<>>, positions |-> <<>>, next_segment |-> 1,
     emitted |-> <<>>, source_tokens |-> 0, raised |-> "", done |-> FALSE]

\* No pass over the source started yet.
NoIteration == [pass |-> 0, idx |-> 0, first |-> <<>>, second |-> <<>>]

\* Faulty variant: the end-of-sequence id handed over as the pad value.
ToPackedDatasetEosPad(self) ==
    [NoPacker EXCEPT !.created = TRUE, !.pad_value = TokenId("<eos>")]

\* to_packed_dataset(self): PackedDataset(self, pad_value=pad_token_id).
to_packed_dataset(self) ==
    [NoPacker EXCEPT !.created = TRUE, !.pad_value = pad_token_id(self.tokenizer)]

-----------------------------------------------------------------------------
(* Operations of the pipeline *)

NoLauncher == [pc |-> "idle"]

\* A model is constructed: it records its backend tag in the global state.
ModelInit(tag) ==
    /\ global_state' = tag
    /\ UNCHANGED <<ds, ctor, out, launcher, source, packer, iteration>>

\* ds = TextCompletionDataset(source, **a): on an exception ds keeps its
\* previous binding.
NewDataset(a) ==
    LET r == DatasetInit(a)
    IN /\ ctor' = [called |-> TRUE,
                   tokenizer_given |-> a.tokenizer # None,
                   tokenizer_handle_given |-> a.tokenizer_handle # None,
                   raised |-> r.raised,
                   attrs |-> r.self.attrs]
       /\ IF r.raised = ""
          THEN ds' = r.self /\ out' = NoOutcome
          ELSE UNCHANGED <<ds, out>>
       /\ UNCHANGED <<global_state, launcher, source, packer, iteration>>

\* ds.process_sample(sample)
ProcessSample(sample) ==
    /\ ds # NoDataset
    /\ out' = process_sample(ds, global_state, sample)
    /\ ds' = self_after_process_sample(ds, sample)
    /\ UNCHANGED <<global_state, ctor, launcher, source, packer, iteration>>

\* The constructor calls a caller makes: every combination of the arguments
\* that reach the sample pipeline, with a tokenizer instance supplied; and
\* every combination of tokenizer and tokenizer_handle (supplied or not), with
\* the other arguments left out.
ConstructorCalls ==
    [tokenizer : TokenizerInstances,
     tokenizer_handle : {None},
     column_mapping : ColumnMappingArgs,
     model_type : ModelTypeArgs,
     max_seq_len : 1..MaxSeqLen,
     custom_formatting_fn : CustomFormattingFns]
    \cup
    [tokenizer : TokenizerInstances \cup {None},
     tokenizer_handle : TokenizerHandles \cup {None},
     column_mapping : { {} },
     model_type : {Omitted},
     max_seq_len : {MaxSeqLen},
     custom_formatting_fn : {None}]

Init ==
    /\ global_state = None
    /\ ds = NoDataset
    /\ ctor = [called |-> FALSE, tokenizer_given |-> FALSE,
               tokenizer_handle_given |-> FALSE, raised |-> "", attrs |-> {}]
    /\ out = NoOutcome
    /\ launcher = NoLauncher
    /\ source = <<>>
    /\ packer = NoPacker
    /\ iteration = NoIteration

Next ==
    \/ \E tag \in {MAXTEXT, KERASHUB} : ModelInit(tag)
    \/ \E a \in ConstructorCalls : NewDataset(a)
    \/ \E sample \in RawSamples : ProcessSample(sample)

Spec == Init /\ [][Next]_vars

-----------------------------------------------------------------------------
(* Properties of the sample pipeline *)

\* The stages the last process_sample call ran.
Ran(stage) == \E i \in 1..Len(out.stages) : out.stages[i] = stage

\* The tag in force at a call that read attr from the global state, for the
\* current dataset: the global attribute when set, else the dataset's own.
TagAt(attr) == IF attr # None THEN attr ELSE ds.model_type

\* C1: label_ids is input_ids shifted left by one in every row, and the last
\* slot of every row holds the tokenizer's pad_token_id (never the token
\* rolled around from position 0).
C1_LabelShift ==
    Ran("model_transform") =>
        /\ Len(out.label_ids) = Len(out.input_ids)
        /\ \A b \in 1..Len(out.label_ids) :
            /\ Len(out.input_ids[b]) = ds.max_seq_len
            /\ Len(out.label_ids[b]) = ds.max_seq_len
            /\ \A i \in 1..(ds.max_seq_len - 1) :
                  out.label_ids[b][i] = out.input_ids[b][i + 1]
            /\ out.label_ids[b][ds.max_seq_len] = pad_token_id(ds.tokenizer)

\* A sample was tokenized into at least two slots with no padding at all, so
\* the token rolled around from position 0 is not the pad id.
C1_Witness ==
    /\ Ran("model_transform")
    /\ ds.max_seq_len >= 2
    /\ \A i \in 1..ds.max_seq_len :
          out.input_ids[1][i] # pad_token_id(ds.tokenizer)

\* C2: a returned ModelInput has exactly the keys x and y; under x it has
\* exactly tokens, segment_ids, positions for MAXTEXT and exactly token_ids,
\* padding_mask for KERASHUB; nothing else is ever returned.
C2_BackendShape ==
    /\ out.returned =>
        /\ DOMAIN out.result = {"x", "y"}
        /\ out.model_type \in {MAXTEXT, KERASHUB}
        /\ out.model_type = MAXTEXT =>
              DOMAIN out.result.x = {"tokens", "segment_ids", "positions"}
        /\ out.model_type = KERASHUB =>
              DOMAIN out.result.x = {"token_ids", "padding_mask"}
    /\ ~out.returned => out.result = NoResult

C2_Witness ==
    /\ out.returned
    /\ out.model_type = MAXTEXT
    /\ TagAt(out.attr) = MAXTEXT

\* C3: the tag a process_sample call uses is the one the most recently
\* constructed model wrote to the global state, whatever model_type the
\* dataset was constructed with; the dataset's model_type is used only when
\* no model has written the attribute.
C3_AmbientTagWins ==
    Ran("convert_to_model_specific_input") =>
        /\ out.attr # None => out.model_type = out.attr
        /\ out.attr = None => out.model_type = ds.model_type

\* A model wrote MAXTEXT, the dataset was constructed with KERASHUB given
\* explicitly, and a sample was converted.
C3_Witness ==
    /\ Ran("convert_to_model_specific_input")
    /\ out.attr = MAXTEXT
    /\ ds.model_type_given
    /\ ds.model_type = KERASHUB
    /\ out.returned

\* C4 as claimed: two successive ModelInputs of one dataset always have the
\* same backend shape.
C4_ShapeNeverChanges ==
    [][(out.returned /\ out'.returned /\ ds' = ds) =>
          DOMAIN out'.result.x = DOMAIN out.result.x]_vars

\* C4 as amended: the tag is resolved at every call; two successive
\* ModelInputs of one dataset have the same backend shape exactly when the tag
\* in force was the same at both calls.
C4_ShapeFollowsTag ==
    [][(out.returned /\ out'.returned /\ ds' = ds) =>
          ((DOMAIN out'.result.x = DOMAIN out.result.x)
              <=> (TagAt(out'.attr) = TagAt(out.attr)))]_vars

\* A ModelInput was produced under one tag and a model constructed since has
\* written another: the next sample of the same dataset is due under the new tag.
C4_Witness ==
    /\ out.returned
    /\ TagAt(out.attr) # TagAt(global_state)
    /\ TagAt(global_state) \in {MAXTEXT, KERASHUB}

\* C5 as claimed: with the global attribute unset and no model_type given to
\* the constructor, process_sample raises and returns no ModelInput.
C5_MissingTagIsError ==
    (out.called /\ out.attr = None /\ ~ds.model_type_given) =>
        (out.raised # "" /\ ~out.returned)

\* C6: a resolved tag that is non-empty and neither MAXTEXT nor KERASHUB makes
\* convert_to_model_specific_input raise a ValueError naming that tag, and
\* nothing is returned.
C6_UnsupportedTagNamed ==
    (Ran("convert_to_model_specific_input")
        /\ ~Falsy(TagAt(out.attr))
        /\ TagAt(out.attr) \notin {MAXTEXT, KERASHUB}) =>
            /\ out.raised = "ValueError"
            /\ out.arg = TagAt(out.attr)
            /\ ~out.returned
            /\ out.result = NoResult

C6_Witness ==
    /\ Ran("convert_to_model_specific_input")
    /\ out.attr = None
    /\ ds.model_type = "Bogus"
    /\ out.raised = "ValueError"

\* Attributes TextCompletionDataset.__init__ assigns itself, after the check.
OwnAttrs ==
    {"max_seq_len", "tokenizer", "column_mapping", "model_type",
     "custom_formatting_fn", "packing"}

\* C7 as claimed: a constructor call with neither tokenizer nor
\* tokenizer_handle fails before any field of the object is set.
C7_FailsBeforeAnyField ==
    (ctor.called /\ ~ctor.tokenizer_given /\ ~ctor.tokenizer_handle_given) =>
        (ctor.raised = "AssertionError" /\ ctor.attrs = {})

\* C7 as amended: such a call fails with an AssertionError after the base
\* class initializer alone has run: none of the attributes the constructor
\* assigns itself is set.
C7_FailsBeforeOwnFields ==
    (ctor.called /\ ~ctor.tokenizer_given /\ ~ctor.tokenizer_handle_given) =>
        /\ ctor.raised = "AssertionError"
        /\ ctor.attrs \cap OwnAttrs = {}
        /\ ctor.attrs = DatasetBaseAttrs

C7_Witness ==
    /\ ctor.called
    /\ ~ctor.tokenizer_given
    /\ ~ctor.tokenizer_handle_given
    /\ ctor.raised = "AssertionError"

\* C8 as claimed: the constructor accepts the call if and only if exactly one
\* of tokenizer and tokenizer_handle is supplied.
C8_ExactlyOneRequired ==
    ctor.called =>
        ((ctor.raised = "") <=>
            (ctor.tokenizer_given # ctor.tokenizer_handle_given))

\* C8 as amended: the constructor's check rejects the call if and only if
\* neither is supplied; with both supplied the call is accepted, the tokenizer
\* instance is used and the handle is ignored.
C8_AtLeastOneRequired ==
    ctor.called =>
        /\ (ctor.raised = "") <=>
              (ctor.tokenizer_given \/ ctor.tokenizer_handle_given)
        /\ (ctor.raised = "" /\ ctor.tokenizer_given) =>
              ds.tokenizer.name \in TokenizerInstances
        /\ (ctor.raised = "" /\ ~ctor.tokenizer_given) =>
              ds.tokenizer.name \in TokenizerHandles

C8_Witness ==
    /\ ctor.called
    /\ ctor.tokenizer_given
    /\ ctor.tokenizer_handle_given
    /\ ctor.raised = ""
    /\ ds.tokenizer.name \in TokenizerInstances

\* The record task_transform looks the mapped column up in.
Formatted(sample) ==
    IF ds.custom_formatting_fn # None
    THEN ApplyFormatting(ds.custom_formatting_fn, sample)
    ELSE sample

\* C9: when the column mapped to "text" is absent from the formatted record,
\* task_transform raises and no TaskSample, TokenizedSample or ModelInput is
\* produced; when it is present the TaskSample has exactly the key text.
C9_MissingColumnRaises ==
    out.called =>
        LET col == Get(ds.column_mapping, "text")
        IN /\ col \notin Keys(Formatted(out.sample)) =>
                /\ out.raised = "KeyError"
                /\ out.arg = col
                /\ out.stages = <<"task_transform">>
                /\ out.task = {}
                /\ out.input_ids = <<>>
                /\ out.label_ids = <<>>
                /\ ~out.returned
                /\ out.result = NoResult
           /\ col \in Keys(Formatted(out.sample)) =>
                /\ Keys(out.task) = {"text"}
                /\ out.task = {<<"text", Get(Formatted(out.sample), col)>>}

\* The raw record has a "text" column, the formatting function moved it away,
\* and the call raised.
C9_Witness ==
    /\ out.called
    /\ "text" \in Keys(out.sample)
    /\ Get(ds.column_mapping, "text") \notin Keys(Formatted(out.sample))
    /\ out.raised = "KeyError"

AllStages ==
    <<"task_transform", "model_transform", "convert_to_model_specific_input">>

\* C14: a process_sample call runs task_transform, model_transform and
\* convert_to_model_specific_input in that order, each once, or stops after
\* the stage that raised; the formatting function acts before the column
\* lookup, so what the raw record holds under the mapped column is of no
\* account once the function has rewritten or removed that column.
C14_StagesInOrder ==
    out.called =>
        LET col == Get(ds.column_mapping, "text")
            fn == ds.custom_formatting_fn
        IN /\ out.stages \in {<<"task_transform">>, AllStages}
           /\ out.stages = <<"task_transform">> <=> out.raised = "KeyError"
           /\ out.stages = <<"task_transform">> =>
                /\ out.attention_mask = <<>>
                /\ out.model_type = None
                /\ ~out.returned
           /\ (out.stages = AllStages /\ out.raised # "") =>
                /\ out.raised = "ValueError"
                /\ out.input_ids # <<>>
                /\ ~out.returned
           /\ (fn = "fill_text" /\ col = "text") =>
                /\ out.stages = AllStages
                /\ Get(out.task, "text") = <<"a">>
           /\ (fn = "rename_text_to_prompt" /\ "text" \in Keys(out.sample)) =>
                IF col = "text"
                THEN out.stages = <<"task_transform">>
                ELSE /\ out.stages = AllStages
                     /\ Get(out.task, "text") = Get(out.sample, "text")

\* The raw record has no "text" column, the formatting function supplied it,
\* and the call went through all three stages and returned.
C14_Witness ==
    /\ out.returned
    /\ out.stages = AllStages
    /\ ds.custom_formatting_fn = "fill_text"
    /\ Get(ds.column_mapping, "text") = "text"
    /\ "text" \notin Keys(out.sample)

\* C15: input_ids and attention_mask are what the tokenizer returned for
\* <bos>text<eos>, the pad write into label_ids notwithstanding, and the
\* ModelInput carries the three arrays as they are, with positions
\* 0, 1, ..., max_seq_len - 1 in the MAXTEXT shape.
C15_TokenizerOutputKept ==
    Ran("model_transform") =>
        LET full_seq == HFtokenize(<<"<bos>">> \o Get(out.task, "text") \o <<"<eos>">>,
                                   ds.tokenizer, ds.max_seq_len)
        IN /\ out.input_ids = full_seq.input_ids
           /\ out.attention_mask = full_seq.attention_mask
           /\ out.returned =>
                /\ out.result.y = out.label_ids
                /\ out.model_type = MAXTEXT =>
                      /\ out.result.x.tokens = full_seq.input_ids
                      /\ out.result.x.segment_ids = full_seq.attention_mask
                      /\ Len(out.result.x.positions) = 1
                      /\ Len(out.result.x.positions[1]) = ds.max_seq_len
                      /\ \A i \in 1..ds.max_seq_len :
                            out.result.x.positions[1][i] = i - 1
                /\ out.model_type = KERASHUB =>
                      /\ out.result.x.token_ids = full_seq.input_ids
                      /\ out.result.x.padding_mask = full_seq.attention_mask

\* A MAXTEXT ModelInput of a truncated sequence: the last slot of the tokens
\* is a live token while the last slot of the labels is the pad id.
C15_Witness ==
    /\ out.returned
    /\ out.model_type = MAXTEXT
    /\ ds.max_seq_len >= 2
    /\ out.result.x.tokens[1][ds.max_seq_len] # pad_token_id(ds.tokenizer)
    /\ out.result.y[1][ds.max_seq_len] = pad_token_id(ds.tokenizer)

-----------------------------------------------------------------------------
(* Multihost launcher: examples/multihost/ray/TPU/full_finetuning_example.py *)

NumItems == 4       \* records of the global dataset
MaxHosts == 3       \* largest num_tpu_hosts

\* dataset.train_test_split(test_size): the last test_size records are the
\* test split, the records before them the train split, in order.
train_test_split(dataset, test_size) ==
    [train |-> SubSeq(dataset, 1, Len(dataset) - test_size),
     test |-> SubSeq(dataset, Len(dataset) - test_size + 1, Len(dataset))]

\* split_dataset(ds, num_hosts): num_hosts order-preserving slices of ds, an
\* even split of its index range.
split_dataset(dataset, num_hosts) ==
    [i \in 1..num_hosts |->
        SubSeq(dataset,
               ((i - 1) * Len(dataset)) \div num_hosts + 1,
               (i * Len(dataset)) \div num_hosts)]

\* Faulty variant: every host handed the first shard.
RemoteArgsFirstShard(l, i) ==
    IF l.split_data_across_host
    THEN [train_ds |-> l.train_ds[1],
          eval_ds |-> l.eval_ds[1],
          dataset_is_sharded_per_host |-> l.split_data_across_host]
    ELSE [train_ds |-> l.train_ds,
          eval_ds |-> l.eval_ds,
          dataset_is_sharded_per_host |-> l.split_data_across_host]

\* The arguments of the main.remote call the launcher makes for host i
\* (0-based), in either branch.
RemoteArgs(l, i) ==
    IF l.split_data_across_host
    THEN [train_ds |-> l.train_ds[i + 1],
          eval_ds |-> l.eval_ds[i + 1],
          dataset_is_sharded_per_host |-> l.split_data_across_host]
    ELSE [train_ds |-> l.train_ds,
          eval_ds |-> l.eval_ds,
          dataset_is_sharded_per_host |-> l.split_data_across_host]

\* No Dataloader created yet on a host.
NoDataloaders ==
    [created |-> FALSE,
     train_dataloader |-> [dataset_is_sharded_per_host |-> FALSE],
     eval_dataloader |-> [dataset_is_sharded_per_host |-> FALSE]]

\* Faulty variant: the eval Dataloader created without the flag (its default).
DataloadersEvalDefault(args) ==
    [created |-> TRUE,
     train_dataloader |->
        [dataset_is_sharded_per_host |-> args.dataset_is_sharded_per_host],
     eval_dataloader |-> [dataset_is_sharded_per_host |-> FALSE]]

\* run_workload(train_source, eval_source, dataset_is_sharded_per_host), as
\* main calls it with its own arguments: the two Dataloaders it creates.
run_workload(args) ==
    [created |-> TRUE,
     train_dataloader |->
        [dataset_is_sharded_per_host |-> args.dataset_is_sharded_per_host],
     eval_dataloader |->
        [dataset_is_sharded_per_host |-> args.dataset_is_sharded_per_host]]

\* The records host h (1-based) iterates over: its train source, then its
\* eval source.
HostRecords(l, h) == l.hosts[h].train_ds \o l.hosts[h].eval_ds

\* dataset_items, dataset, train_ds, eval_ds are created.
CreateDatasets ==
    /\ launcher.pc = "start"
    /\ LET dataset == [i \in 1..NumItems |-> i]
           parts == train_test_split(dataset, NumItems \div 2)
       IN launcher' = [launcher EXCEPT !.pc = "created",
                                       !.dataset = dataset,
                                       !.train_global = parts.train,
                                       !.eval_global = parts.test,
                                       !.train_ds = parts.train,
                                       !.eval_ds = parts.test]
    /\ UNCHANGED <<global_state, ds, ctor, out, source, packer, iteration>>

\* if split_data_across_host: train_ds and eval_ds are replaced by their
\* per-host splits.
SplitAcrossHost ==
    /\ launcher.pc = "created"
    /\ launcher.split_data_across_host
    /\ launcher' =
         [launcher EXCEPT
            !.pc = "launching",
            !.train_ds = split_dataset(launcher.train_ds, launcher.num_tpu_hosts),
            !.eval_ds = split_dataset(launcher.eval_ds, launcher.num_tpu_hosts)]
    /\ UNCHANGED <<global_state, ds, ctor, out, source, packer, iteration>>

\* else: the datasets are handed out whole.
NoSplit ==
    /\ launcher.pc = "created"
    /\ ~launcher.split_data_across_host
    /\ launcher' = [launcher EXCEPT !.pc = "launching"]
    /\ UNCHANGED <<global_state, ds, ctor, out, source, packer, iteration>>

\* The next main.remote(...) of the list comprehension: host i is started.
Launch(i) ==
    /\ launcher.pc = "launching"
    /\ i = Len(launcher.hosts)
    /\ i < launcher.num_tpu_hosts
    /\ launcher' =
         [launcher EXCEPT
            !.hosts = Append(@, RemoteArgs(launcher, i)),
            !.loaders = Append(@, NoDataloaders),
            !.pos = Append(@, 0)]
    /\ UNCHANGED <<global_state, ds, ctor, out, source, packer, iteration>>

\* Host h runs main up to the creation of its Dataloaders.
RunWorkload(h) ==
    /\ launcher.pc = "launching"
    /\ h \in 1..Len(launcher.hosts)
    /\ ~launcher.loaders[h].created
    /\ launcher' = [launcher EXCEPT !.loaders[h] = run_workload(launcher.hosts[h])]
    /\ UNCHANGED <<global_state, ds, ctor, out, source, packer, iteration>>

\* Host h reads the next record of its sources.
HostRead(h) ==
    /\ launcher.pc = "launching"
    /\ h \in 1..Len(launcher.hosts)
    /\ launcher.loaders[h].created
    /\ launcher.pos[h] < Len(HostRecords(launcher, h))
    /\ launcher' = [launcher EXCEPT !.pos[h] = @ + 1]
    /\ UNCHANGED <<global_state, ds, ctor, out, source, packer, iteration>>

\* ray.get returns once every host has finished; ray.shutdown().
Shutdown ==
    /\ launcher.pc = "launching"
    /\ Len(launcher.hosts) = launcher.num_tpu_hosts
    /\ \A h \in 1..Len(launcher.hosts) :
          /\ launcher.loaders[h].created
          /\ launcher.pos[h] = Len(HostRecords(launcher, h))
    /\ launcher' = [launcher EXCEPT !.pc = "done"]
    /\ UNCHANGED <<global_state, ds, ctor, out, source, packer, iteration>>

\* The launcher before its first statement, on a cluster of num_tpu_hosts
\* hosts, with the split_data_across_host switch of the script set either way.
InitLauncher ==
    /\ global_state = None
    /\ ds = NoDataset
    /\ ctor = [called |-> FALSE, tokenizer_given |-> FALSE,
               tokenizer_handle_given |-> FALSE, raised |-> "", attrs |-> {}]
    /\ out = NoOutcome
    /\ source = <<>>
    /\ packer = NoPacker
    /\ iteration = NoIteration
    /\ \E n \in 1..MaxHosts, split \in BOOLEAN :
          launcher = [pc |-> "start",
                      num_tpu_hosts |-> n,
                      split_data_across_host |-> split,
                      dataset |-> <<>>,
                      train_global |-> <<>>,
                      eval_global |-> <<>>,
                      train_ds |-> <<>>,
                      eval_ds |-> <<>>,
                      hosts |-> <<>>,
                      loaders |-> <<>>,
                      pos |-> <<>>]

NextLauncher ==
    \/ CreateDatasets
    \/ SplitAcrossHost
    \/ NoSplit
    \/ \E i \in 0..(MaxHosts - 1) : Launch(i)
    \/ \E h \in 1..MaxHosts : RunWorkload(h)
    \/ \E h \in 1..MaxHosts : HostRead(h)
    \/ Shutdown

SpecLauncher == InitLauncher /\ [][NextLauncher]_vars

-----------------------------------------------------------------------------
(* Properties of the launcher *)

Range(seq) == {seq[i] : i \in 1..Len(seq)}

\* The records host h has read so far.
ReadBy(h) == Range(SubSeq(HostRecords(launcher, h), 1, launcher.pos[h]))

\* C10: in disjoint mode the per-host shards, in host order, make up the
\* original train and eval datasets with no duplicate and no gap; host i is
\* handed shard i and nothing else; no record is read by two hosts, and when
\* all hosts have finished every record has been read by one of them.
C10_DisjointShards ==
    (launcher.split_data_across_host /\ launcher.pc \in {"launching", "done"}) =>
        /\ Len(launcher.train_ds) = launcher.num_tpu_hosts
        /\ Len(launcher.eval_ds) = launcher.num_tpu_hosts
        /\ Flatten(launcher.train_ds) = launcher.train_global
        /\ Flatten(launcher.eval_ds) = launcher.eval_global
        /\ Range(launcher.train_global) \cup Range(launcher.eval_global)
              = Range(launcher.dataset)
        /\ \A h \in 1..Len(launcher.hosts) :
              /\ launcher.hosts[h].train_ds = launcher.train_ds[h]
              /\ launcher.hosts[h].eval_ds = launcher.eval_ds[h]
        /\ \A h1, h2 \in 1..Len(launcher.hosts) :
              h1 # h2 => ReadBy(h1) \cap ReadBy(h2) = {}
        /\ launcher.pc = "done" =>
              UNION {ReadBy(h) : h \in 1..Len(launcher.hosts)}
                  = Range(launcher.dataset)

\* Disjoint mode on more than one host, all hosts finished.
C10_Witness ==
    /\ launcher.split_data_across_host
    /\ launcher.pc = "done"
    /\ launcher.num_tpu_hosts >= 2
    /\ \A h \in 1..Len(launcher.hosts) : ReadBy(h) # {}

\* C11: one run never mixes the two policies: every host launched, and both
\* Dataloaders of every host, carry the same dataset_is_sharded_per_host
\* value; it is true exactly when each host was handed its own slice of the
\* split datasets, and false exactly when each was handed the whole datasets.
C11_OnePolicyPerRun ==
    launcher.pc \in {"launching", "done"} =>
        LET flag == launcher.split_data_across_host
            n == launcher.num_tpu_hosts
            launched == 1..Len(launcher.hosts)
        IN /\ \A h \in launched :
                /\ launcher.hosts[h].dataset_is_sharded_per_host = flag
                /\ launcher.loaders[h].created =>
                    /\ launcher.loaders[h].train_dataloader.dataset_is_sharded_per_host = flag
                    /\ launcher.loaders[h].eval_dataloader.dataset_is_sharded_per_host = flag
                /\ flag =>
                    /\ launcher.hosts[h].train_ds = split_dataset(launcher.train_global, n)[h]
                    /\ launcher.hosts[h].eval_ds = split_dataset(launcher.eval_global, n)[h]
                /\ ~flag =>
                    /\ launcher.hosts[h].train_ds = launcher.train_global
                    /\ launcher.hosts[h].eval_ds = launcher.eval_global
           /\ (n >= 2 /\ launched # {}) =>
                /\ flag <=> \A h \in launched :
                               launcher.hosts[h].train_ds # launcher.train_global
                /\ ~flag <=> \A h \in launched :
                               launcher.hosts[h].train_ds = launcher.train_global

\* Shared mode on more than one host: every host has created both Dataloaders
\* and the run has finished.
C11_Witness ==
    /\ ~launcher.split_data_across_host
    /\ launcher.pc = "done"
    /\ launcher.num_tpu_hosts >= 2
    /\ \A h \in 1..Len(launcher.hosts) : launcher.loaders[h].created

-----------------------------------------------------------------------------
(* Packing: ds.to_packed_dataset() and the PackedDataset it returns *)

MaxPackedLen == 5   \* largest max_seq_len of a dataset that is packed
MaxSourceLen == 3   \* most records in a source

\* Records of a source: with a "text" column or with no column at all.
SourceSamples == {s \in RawSamples : Keys(s) \subseteq {"text"}}
Sources == UNION {[1..n -> SourceSamples] : n \in 0..MaxSourceLen}

\* The constructor calls of a dataset that is iterated or packed.
PackingCalls ==
    [tokenizer : TokenizerInstances,
     tokenizer_handle : {None},
     column_mapping : { {} },
     model_type : {Omitted},
     max_seq_len : 1..MaxPackedLen,
     custom_formatting_fn : CustomFormattingFns]

\* The tokens of seq other than pad.
NonPad(seq, pad) == LET Live(x) == x # pad IN SelectSeq(seq, Live)

\* The buffer emitted as one PackedSample: padded to max_seq_len with the pad
\* value, its segment ids and positions with 0.
PackedSample(p, max_seq_len) ==
    [tokens |-> p.buffer \o [i \in 1..(max_seq_len - Len(p.buffer)) |-> p.pad_value],
     segment_ids |-> p.segment_ids \o [i \in 1..(max_seq_len - Len(p.buffer)) |-> 0],
     positions |-> p.positions \o [i \in 1..(max_seq_len - Len(p.buffer)) |-> 0]]

\* The live tokens of one sample join the buffer under a fresh segment id; a
\* buffer they would overflow is emitted first and a new one started.
pack_append(p, live, max_seq_len) ==
    IF Len(p.buffer) + Len(live) > max_seq_len
    THEN [p EXCEPT !.emitted = Append(@, PackedSample(p, max_seq_len)),
                   !.buffer = live,
                   !.segment_ids = [i \in 1..Len(live) |-> 1],
                   !.positions = [i \in 1..Len(live) |-> i - 1],
                   !.next_segment = 2]
    ELSE [p EXCEPT !.buffer = @ \o live,
                   !.segment_ids = @ \o [i \in 1..Len(live) |-> p.next_segment],
                   !.positions = @ \o [i \in 1..Len(live) |-> i - 1],
                   !.next_segment = @ + 1]

\* packed = ds.to_packed_dataset()
ToPackedDataset ==
    /\ ds # NoDataset
    /\ ~packer.created
    /\ packer' = to_packed_dataset(ds)
    /\ UNCHANGED <<global_state, ds, ctor, out, launcher, source, iteration>>

\* The PackedDataset pulls the next TokenizedSample of the dataset it wraps.
\* source_tokens counts the tokens of the pulled samples that are not the
\* tokenizer's pad id.
PackNext ==
    /\ packer.created
    /\ ~packer.done
    /\ packer.idx < Len(source)
    /\ LET t == tokenize_sample(ds, source[packer.idx + 1])
           row == t.input_ids[1]
           live == NonPad(row, packer.pad_value)
           kept == SubSeq(live, 1, IF Len(live) < ds.max_seq_len
                                   THEN Len(live) ELSE ds.max_seq_len)
       IN IF t.raised # ""
          THEN packer' = [packer EXCEPT !.raised = t.raised, !.done = TRUE]
          ELSE packer' =
                 [pack_append(packer, kept, ds.max_seq_len) EXCEPT
                    !.idx = @ + 1,
                    !.source_tokens =
                        @ + Len(NonPad(row, pad_token_id(ds.tokenizer)))]
    /\ UNCHANGED <<global_state, ds, ctor, out, launcher, source, iteration>>

\* The source is exhausted: the partial buffer is emitted.
PackFlush ==
    /\ packer.created
    /\ ~packer.done
    /\ packer.idx = Len(source)
    /\ packer' =
         [packer EXCEPT
            !.done = TRUE,
            !.emitted = IF packer.buffer = <<>> THEN @
                        ELSE Append(@, PackedSample(packer, ds.max_seq_len)),
            !.buffer = <<>>,
            !.segment_ids = <<>>,
            !.positions = <<>>]
    /\ UNCHANGED <<global_state, ds, ctor, out, launcher, source, iteration>>

\* A dataset is yet to be constructed over some source.
InitPacking ==
    /\ global_state = None
    /\ ds = NoDataset
    /\ ctor = [called |-> FALSE, tokenizer_given |-> FALSE,
               tokenizer_handle_given |-> FALSE, raised |-> "", attrs |-> {}]
    /\ out = NoOutcome
    /\ launcher = NoLauncher
    /\ source \in Sources
    /\ packer = NoPacker
    /\ iteration = NoIteration

NextPacking ==
    \/ \E a \in PackingCalls : ds = NoDataset /\ NewDataset(a)
    \/ ToPackedDataset
    \/ PackNext
    \/ PackFlush

SpecPacking == InitPacking /\ [][NextPacking]_vars

RECURSIVE SumNonPad(_, _)
\* The number of tokens other than pad over the emitted PackedSamples.
SumNonPad(samples, pad) ==
    IF samples = <<>> THEN 0
    ELSE Len(NonPad(Head(samples).tokens, pad)) + SumNonPad(Tail(samples), pad)

\* C12: when the packed dataset is exhausted, the emitted PackedSamples, the
\* flushed final buffer included, hold as many tokens other than the
\* tokenizer's pad_token_id as the source TokenizedSamples did.
C12_PackingConserves ==
    (packer.done /\ packer.raised = "") =>
        SumNonPad(packer.emitted, pad_token_id(ds.tokenizer)) = packer.source_tokens

\* Two samples shared one PackedSample, a further one overflowed it, and the
\* final buffer was flushed.
C12_Witness ==
    /\ packer.done
    /\ packer.raised = ""
    /\ Len(packer.emitted) = 2
    /\ packer.idx = 3
    /\ \E i \in 1..ds.max_seq_len : packer.emitted[1].segment_ids[i] = 2

-----------------------------------------------------------------------------
(* Repeated iteration of the dataset over its source *)

\* The TokenizedSample part of a process_sample outcome.
Tokenized(o) ==
    [raised |-> IF o.stages = <<"task_transform">> THEN o.raised ELSE "",
     input_ids |-> o.input_ids,
     attention_mask |-> o.attention_mask,
     label_ids |-> o.label_ids]

\* iter(ds): a pass over the source starts, the first or, once the first is
\* exhausted, the second.
IterStart ==
    /\ ds # NoDataset
    /\ \/ iteration.pass = 0
       \/ iteration.pass = 1 /\ iteration.idx = Len(source)
    /\ iteration' = [iteration EXCEPT !.pass = @ + 1, !.idx = 0]
    /\ UNCHANGED <<global_state, ds, ctor, out, launcher, source, packer>>

\* next(...): the next record of the source goes through process_sample.
IterNext ==
    /\ iteration.pass \in {1, 2}
    /\ iteration.idx < Len(source)
    /\ LET sample == source[iteration.idx + 1]
           o == process_sample(ds, global_state, sample)
       IN /\ out' = o
          /\ ds' = self_after_process_sample(ds, sample)
          /\ iteration' =
               IF iteration.pass = 1
               THEN [iteration EXCEPT !.idx = @ + 1,
                                      !.first = Append(@, Tokenized(o))]
               ELSE [iteration EXCEPT !.idx = @ + 1,
                                      !.second = Append(@, Tokenized(o))]
    /\ UNCHANGED <<global_state, ctor, launcher, source, packer>>

NextIteration ==
    \/ \E a \in PackingCalls : ds = NoDataset /\ NewDataset(a)
    \/ \E tag \in {MAXTEXT, KERASHUB} : ModelInit(tag)
    \/ IterStart
    \/ IterNext

SpecIteration == InitPacking /\ [][NextIteration]_vars

====
